---- MODULE Spec2Model ----
(***************************************************************************)
(* Model of byte_micro_perf/backends/backend.py: the Backend class that    *)
(* provisions a tensor pool (build_tensor), calibrates an iteration count  *)
(* and times an operator (perf, core_perf), one process per rank.          *)
(*                                                                         *)
(* Units.  Byte quantities are counted in tenths of a GiB, so that         *)
(* 1 * 1024**3 bytes is 10 and memory_limit * 0.9 * 1024**3 is exactly     *)
(* 9 * memory_limit.  Clock differences are counted in milliseconds, so    *)
(* that avg_op_duration > 10.0 is elapsed > 50000 and                      *)
(* ceil(10.0 / avg_op_duration) is ceil(50000 / elapsed).  Latency is in   *)
(* hundredths of a microsecond (round(.., 2)).  Tensor sizes are multiples  *)
(* of a tenth of a GiB and clock differences multiples of a millisecond.   *)
(* Arithmetic is exact; the source computes in double precision, which     *)
(* gives the same comparisons, floors and ceilings on these values.        *)
(*                                                                         *)
(* Collaborators (byte-size function, tensor-constructor, operator,        *)
(* device_synchronize, the clock, dist.barrier) are nondeterministic       *)
(* within their interface: a call returns or raises, a clock difference    *)
(* is any sample, and dist.barrier returns once every rank of the group    *)
(* is inside a barrier call, whichever call site each rank is at.          *)
(***************************************************************************)
EXTENDS Integers, Sequences, FiniteSets

\* ------------------------------------------------------------- bounds
MaxTensorSize == 11       \* largest tensor_size a byte-size function reports
MaxMemoryLimit == 3       \* largest memory_limit (GiB) of a device
MaxIterations == 3        \* largest workload_dict["iterations"]
NumRanks == 2             \* processes of the distributed run

\* ---------------------------------------------------- program constants
assume_cache_size == 10
warm_iterations == 5
test_iterations == 5
max_total_duration == 10

\* the two name lists of the source
ProvisionCommOps ==
    {"allreduce", "allgather", "reducescatter", "alltoall", "broadcast",
     "p2p", "device2host", "host2device", "hash_table"}

ReportCommOps ==
    {"allreduce", "allgather", "reducescatter", "alltoall", "broadcast",
     "p2p", "device2host", "host2device"}

\* operator names of the registry: the communication primitives and two
\* computation kernels
ComputeOps == {"gemm", "add"}
OpNames == ProvisionCommOps \cup ComputeOps

\* ------------------------------------------------------ pure functions
Min(a, b) == IF a <= b THEN a ELSE b

\* math.floor(a / b) and math.ceil(a / b) for a >= 0, b > 0
Floor(a, b) == a \div b
Ceil(a, b) == (a + b - 1) \div b

\* round(a / n, 2) on a value counted in hundredths (no tie occurs for the
\* divisors used: the nearest hundredth)
RoundDiv(a, n) == (2 * a + n) \div (2 * n)

\* the byte-size tuples: (bs, rw_bytes, r_bytes, w_bytes) and
\* (bs, rw_bytes, r_bytes, w_bytes, tensor_size)
SizeResults ==
    {<<1, s, s, 0>> : s \in 0..MaxTensorSize}
        \cup {<<1, MaxTensorSize - s, 0, 0, s>> : s \in 0..MaxTensorSize}

TensorSize(result) == IF Len(result) = 4 THEN result[2] ELSE result[5]

AssumeAvailBytes(memory_limit) == memory_limit * 9

\* mutant: the provisioner tests the shorter name list of the report branch
IsProvisionCommOpShort(op) == op \in ReportCommOps

IsProvisionCommOp(op) == op \in ProvisionCommOps

\* mutant: the final branch forgets the cap by the requested iterations
MaxDataCntNoCap(op, tensor_size, avail, iters) ==
    IF IsProvisionCommOp(op)
    THEN IF tensor_size > avail
         THEN [ret |-> "empty_list", cnt |-> 0]
         ELSE [ret |-> "count", cnt |-> 1]
    ELSE IF tensor_size > avail
         THEN [ret |-> "tuple", cnt |-> 0]
         ELSE IF 2 * tensor_size > avail
         THEN [ret |-> "count", cnt |-> 1]
         ELSE IF tensor_size > assume_cache_size
         THEN [ret |-> "count", cnt |-> 2]
         ELSE IF tensor_size = 0
         THEN [ret |-> "raise", cnt |-> 0]
         ELSE [ret |-> "count", cnt |-> Floor(avail, tensor_size)]

\* mutant: the final branch rounds the quotient up
MaxDataCntCeil(op, tensor_size, avail, iters) ==
    IF IsProvisionCommOp(op)
    THEN IF tensor_size > avail
         THEN [ret |-> "empty_list", cnt |-> 0]
         ELSE [ret |-> "count", cnt |-> 1]
    ELSE IF tensor_size > avail
         THEN [ret |-> "tuple", cnt |-> 0]
         ELSE IF 2 * tensor_size > avail
         THEN [ret |-> "count", cnt |-> 1]
         ELSE IF tensor_size > assume_cache_size
         THEN [ret |-> "count", cnt |-> 2]
         ELSE IF tensor_size = 0
         THEN [ret |-> "raise", cnt |-> 0]
         ELSE [ret |-> "count", cnt |-> Min(Ceil(avail, tensor_size), iters)]

\* mutant: the two-instance branch is capped by the requested iterations
MaxDataCntCappedTwo(op, tensor_size, avail, iters) ==
    IF IsProvisionCommOp(op)
    THEN IF tensor_size > avail
         THEN [ret |-> "empty_list", cnt |-> 0]
         ELSE [ret |-> "count", cnt |-> 1]
    ELSE IF tensor_size > avail
         THEN [ret |-> "tuple", cnt |-> 0]
         ELSE IF 2 * tensor_size > avail
         THEN [ret |-> "count", cnt |-> 1]
         ELSE IF tensor_size > assume_cache_size
         THEN [ret |-> "count", cnt |-> Min(2, iters)]
         ELSE IF tensor_size = 0
         THEN [ret |-> "raise", cnt |-> 0]
         ELSE [ret |-> "count", cnt |-> Min(Floor(avail, tensor_size), iters)]

\* the provisioning policy of build_tensor: what it returns early, that it
\* raises (ZeroDivisionError), or the number of tensor-sets to create
MaxDataCnt(op, tensor_size, avail, iters) ==
    IF IsProvisionCommOp(op)
    THEN IF tensor_size > avail
         THEN [ret |-> "empty_list", cnt |-> 0]
         ELSE [ret |-> "count", cnt |-> 1]
    ELSE IF tensor_size > avail
         THEN [ret |-> "tuple", cnt |-> 0]
         ELSE IF 2 * tensor_size > avail
         THEN [ret |-> "count", cnt |-> 1]
         ELSE IF tensor_size > assume_cache_size
         THEN [ret |-> "count", cnt |-> 2]
         ELSE IF tensor_size = 0
         THEN [ret |-> "raise", cnt |-> 0]
         ELSE [ret |-> "count", cnt |-> Min(Floor(avail, tensor_size), iters)]

\* the value build_tensor returns for a computation operator whose
\* tensor_size exceeds the budget: the tuple ([], 0, tensor_size)
OomTuple == <<"empty_list", "int", "int">>

\* the iteration count perf hands to core_perf after a calibration window of
\* `elapsed` ms: avg_op_duration = elapsed / 1e3 / test_iterations seconds
BudgetMs == max_total_duration * 1000 * test_iterations

\* mutant: the budget-filling count is not capped by the requested iterations
PreferIterationsNoCap(elapsed, iters) ==
    IF elapsed > BudgetMs
    THEN 2
    ELSE Ceil(BudgetMs, elapsed)

\* mutant: math.floor in place of math.ceil
PreferIterationsFloor(elapsed, iters) ==
    IF elapsed > BudgetMs
    THEN 2
    ELSE Min(Floor(BudgetMs, elapsed), iters)

\* lines 226-229
PreferIterations(elapsed, iters) ==
    IF elapsed > BudgetMs
    THEN 2
    ELSE Min(Ceil(BudgetMs, elapsed), iters)

\* mutant: the index is clamped to the pool instead of wrapped
CoreSlotClamped(i, k) == Min(i, k - 1) + 1

\* the pool slot of the i-th timed call (0-based i, 1-based slot)
CoreSlot(i, k) == (i % k) + 1

\* round((end - start) / 1e3 / prefer_iterations, 2), in hundredths of a us
Latency(elapsed, n) == RoundDiv(elapsed * 100000, n)

\* clock differences the two windows can observe, in ms
CalibrationElapsed == {0, 12500, 20000, 30000, 50000, 50001, 100000}
TimedElapsed == {0, 1, 7}

\* --------------------------------------------------------------- state
VARIABLES
    op_name,            \* self.op_name
    iterations,         \* self.iterations
    world_size,         \* number of processes
    dist_initialized,   \* dist.is_initialized()
    cases,              \* the byte-size tuples of the perf calls the harness makes
    memory_limit,       \* self.memory_limit, per rank
    self,               \* per rank: the locals of the running perf call
    log                 \* per rank: what the perf call has done so far

env == <<op_name, iterations, world_size, dist_initialized, cases, memory_limit>>
vars == <<op_name, iterations, world_size, dist_initialized, cases, memory_limit,
          self, log>>

Ranks == 1..world_size

NoReport == [kind |-> "none", op_name |-> "", latency |-> 0, error |-> ""]

IdleSelf ==
    [pc |-> "idle", call |-> 0, tensor_list |-> <<>>, max_data_cnt |-> 0,
     i |-> 0, prefer_iterations |-> 0, latency |-> 0, error |-> "",
     report |-> NoReport]

\* the per-call part of the log: fence is 1 after a device_synchronize, 2
\* after a barrier that follows it, 0 after an operator invocation; window
\* names the timed window whose start timestamp has been read and whose end
\* timestamp has not; outside counts the invocations of a timed loop made
\* while its window was not open; faults counts the raises of collaborators
\* (tensor-constructor, device_synchronize, operator); policy names the
\* provisioning policy build_tensor applied; syncs and barriers count the
\* device_synchronize calls made and the barrier calls returned;
\* unpackErrors counts the operation(*inputs) that raised on an int slot
FreshCall ==
    [fence |-> 0, window |-> "closed", warmOps |-> 0, calibOps |-> 0,
     okCalls |-> 0, lastSlot |-> 0, timedSlots |-> <<>>, created |-> 0,
     poolSize |-> 0, coreCalls |-> 0, coreN |-> 0, avgMs |-> 0,
     timedOps |-> 0, outside |-> 0, faults |-> 0, cleanups |-> 0,
     emptyCaches |-> 0, reports |-> 0, policy |-> "none", syncs |-> 0,
     barriers |-> 0, unpackErrors |-> 0]

\* the part of the log kept over the calls of a rank: the calls in which the
\* rank arrived at the barrier before / after the timed loop, and in which
\* it read the start / end timestamp of the timed pass
FreshRank ==
    [now |-> FreshCall, timedFrom |-> {}, timedTo |-> {},
     readStart |-> {}, readEnd |-> {}]

InitCommon ==
    /\ op_name \in OpNames
    /\ iterations \in 0..MaxIterations
    /\ self = [r \in Ranks |-> IdleSelf]
    /\ log = [r \in Ranks |-> FreshRank]

\* one process, no process group, one perf call of any workload
Init ==
    /\ world_size = 1
    /\ dist_initialized = FALSE
    /\ cases \in {<<c>> : c \in SizeResults}
    /\ memory_limit \in [1..1 -> 0..MaxMemoryLimit]
    /\ InitCommon

\* several processes in one process group, all making the same two perf
\* calls of a collective; the devices may differ in free memory
InitRanks ==
    /\ world_size = NumRanks
    /\ dist_initialized = TRUE
    /\ cases = <<<<1, 5, 5, 0>>, <<1, 5, 5, 0>>>>
    /\ memory_limit \in [1..NumRanks -> 0..1]
    /\ InitCommon
    /\ op_name = "allreduce"
    /\ iterations \in 1..2

\* several processes in one process group, each making one perf call with
\* the same workload of a collective; the devices may differ in free memory
InitOnce ==
    /\ world_size = NumRanks
    /\ dist_initialized = TRUE
    /\ cases = <<<<1, 5, 5, 0>>>>
    /\ memory_limit \in [1..NumRanks -> 0..1]
    /\ InitCommon
    /\ op_name = "allreduce"
    /\ iterations \in 1..2

\* ------------------------------------------------------------- helpers
SetSelf(r, s) == self' = [self EXCEPT ![r] = s]
SetNow(r, n) == log' = [log EXCEPT ![r].now = n]

\* except Exception (lines 231-234): latency = 0, error = "RUN_OP_ERROR"
Caught(s) == [s EXCEPT !.pc = "cleanup", !.latency = 0, !.error = "RUN_OP_ERROR"]

\* mutant: core_perf reads end_time right after the device_synchronize that
\* follows the loop, without the barrier
AfterSyncSkipsBarrier(pc) ==
    CASE pc = "warm_sync" -> "warm_barrier"
      [] pc = "calib_sync" -> "calib_barrier"
      [] pc = "calib_end_sync" -> "calib_end_barrier"
      [] pc = "core_sync" -> "core_barrier"
      [] pc = "core_end_sync" -> "core_end"

\* the statement after a device_synchronize() / a barrier() call
AfterSync(pc) ==
    CASE pc = "warm_sync" -> "warm_barrier"
      [] pc = "calib_sync" -> "calib_barrier"
      [] pc = "calib_end_sync" -> "calib_end_barrier"
      [] pc = "core_sync" -> "core_barrier"
      [] pc = "core_end_sync" -> "core_end_barrier"

AfterBarrier(pc) ==
    CASE pc = "warm_barrier" -> "warm_op"
      [] pc = "calib_barrier" -> "calib_start"
      [] pc = "calib_end_barrier" -> "calib_end"
      [] pc = "core_barrier" -> "core_start"
      [] pc = "core_end_barrier" -> "core_end"

SyncPcs == {"warm_sync", "calib_sync", "calib_end_sync", "core_sync", "core_end_sync"}
BarrierPcs ==
    {"warm_barrier", "calib_barrier", "calib_end_barrier", "core_barrier",
     "core_end_barrier"}

\* what operation(*inputs) can do with a pool slot: unpacking an int raises
\* before the operator is called; otherwise the operator is invoked and
\* returns or raises
Outcomes(inputs) == IF inputs = "int" THEN {"unpack_error"} ELSE {"ok", "raise"}

\* ------------------------------------------------------------- actions
\* perf, lines 192-196, and build_tensor up to its provisioning decision
PerfBegin(r) ==
    /\ self[r].pc \in {"idle", "done"}
    /\ self[r].call < Len(cases)
    /\ LET c == self[r].call + 1
           tensor_size == TensorSize(cases[c])
           avail == AssumeAvailBytes(memory_limit[r])
           d == MaxDataCnt(op_name, tensor_size, avail, iterations)
       IN  SetSelf(r, [IdleSelf EXCEPT
                !.call = c,
                !.max_data_cnt = d.cnt,
                !.tensor_list = IF d.ret = "tuple" THEN OomTuple ELSE <<>>,
                !.pc = CASE d.ret = "count" -> "create_tensors"
                         [] d.ret = "raise" -> "raised"
                         [] OTHER -> "check_pool"])
    /\ SetNow(r, [FreshCall EXCEPT
          !.policy = IF IsProvisionCommOp(op_name) THEN "communication"
                                                   ELSE "computation"])
    /\ UNCHANGED env

\* build_tensor, lines 172-175: one create_tensors_func call per slot, any of
\* which may raise; then return tensor_list
CreateTensors(r) ==
    /\ self[r].pc = "create_tensors"
    /\ IF Len(self[r].tensor_list) < self[r].max_data_cnt
       THEN \E ok \in BOOLEAN :
              /\ SetSelf(r, IF ok
                            THEN [self[r] EXCEPT !.tensor_list = Append(@, "tensors")]
                            ELSE [self[r] EXCEPT !.tensor_list = <<>>, !.pc = "raised"])
              /\ SetNow(r, [log[r].now EXCEPT
                    !.created = @ + 1,
                    !.faults = IF ok THEN @ ELSE @ + 1])
       ELSE /\ SetSelf(r, [self[r] EXCEPT !.pc = "check_pool"])
            /\ UNCHANGED log
    /\ UNCHANGED env

\* mutant: the measurement block is entered whatever the pool length
CheckPoolAlwaysRuns(r) ==
    /\ self[r].pc = "check_pool"
    /\ SetSelf(r, [self[r] EXCEPT !.pc = "warm_sync",
                                  !.prefer_iterations = iterations])
    /\ SetNow(r, [log[r].now EXCEPT !.poolSize = Len(self[r].tensor_list)])
    /\ UNCHANGED env

\* perf, lines 199-204 and 235-237
CheckPool(r) ==
    /\ self[r].pc = "check_pool"
    /\ SetSelf(r, IF Len(self[r].tensor_list) > 0
                  THEN [self[r] EXCEPT !.pc = "warm_sync",
                                       !.prefer_iterations = iterations]
                  ELSE [self[r] EXCEPT !.pc = "cleanup", !.latency = 0,
                                       !.error = "OOM"])
    /\ SetNow(r, [log[r].now EXCEPT !.poolSize = Len(self[r].tensor_list)])
    /\ UNCHANGED env

\* self.device_synchronize() at lines 207, 213, 218, 179, 184; it returns or
\* raises.  Entering core_perf is its first statement, line 179.
device_synchronize(r) ==
    /\ self[r].pc \in SyncPcs
    /\ \E ok \in BOOLEAN :
         LET pc == self[r].pc
             to == AfterSync(pc)
             entered == [log[r].now EXCEPT
                            !.syncs = @ + 1,
                            !.coreCalls = IF pc = "core_sync" THEN @ + 1 ELSE @,
                            !.coreN = IF pc = "core_sync"
                                      THEN self[r].prefer_iterations ELSE @]
         IN  IF ok
             THEN /\ SetSelf(r, [self[r] EXCEPT !.pc = to])
                  /\ log' = [log EXCEPT
                        ![r].now = [entered EXCEPT !.fence = 1],
                        ![r].timedFrom = IF to = "core_barrier"
                                         THEN @ \cup {self[r].call} ELSE @,
                        ![r].timedTo = IF to = "core_end_barrier"
                                       THEN @ \cup {self[r].call} ELSE @]
             ELSE /\ SetSelf(r, Caught(self[r]))
                  /\ SetNow(r, [entered EXCEPT !.fence = 0, !.window = "closed",
                                                !.faults = @ + 1])
    /\ UNCHANGED env

\* self.barrier() at lines 208, 214, 219, 180, 185: without a process group
\* it returns at once; with one, dist.barrier() returns when every rank of
\* the group is inside a barrier call
barrier(S) ==
    /\ S # {}
    /\ IF dist_initialized THEN S = Ranks ELSE Cardinality(S) = 1
    /\ \A r \in S : self[r].pc \in BarrierPcs
    /\ self' = [r \in Ranks |->
                  IF r \in S THEN [self[r] EXCEPT !.pc = AfterBarrier(@)]
                             ELSE self[r]]
    /\ log' = [r \in Ranks |->
                  IF r \in S
                  THEN [log[r] EXCEPT !.now.fence = IF @ = 1 THEN 2 ELSE 0,
                                      !.now.barriers = @ + 1]
                  ELSE log[r]]
    /\ UNCHANGED env

\* self._run_operation(self.op, tensor_list[slot]) in one of the three loops
\* ("warm", "calib", "timed"), with the outcome `out` of operation(*inputs)
RunOperation(r, slot, out, loop) ==
    LET invoked == IF out = "unpack_error" THEN 0 ELSE 1
        n == log[r].now
    IN  /\ SetSelf(r, IF out = "ok" THEN [self[r] EXCEPT !.i = @ + 1]
                                    ELSE Caught(self[r]))
        /\ SetNow(r, [n EXCEPT
              !.fence = IF invoked = 1 THEN 0 ELSE @,
              !.window = IF out = "ok" THEN @ ELSE "closed",
              !.lastSlot = slot,
              !.okCalls = IF out = "ok" THEN @ + 1 ELSE @,
              !.faults = IF out = "raise" THEN @ + 1 ELSE @,
              !.unpackErrors = IF out = "unpack_error" THEN @ + 1 ELSE @,
              !.warmOps = IF loop = "warm" THEN @ + invoked ELSE @,
              !.calibOps = IF loop = "calib" THEN @ + invoked ELSE @,
              !.timedOps = IF loop = "timed" THEN @ + invoked ELSE @,
              !.timedSlots = IF loop = "timed" THEN Append(@, slot) ELSE @,
              !.outside = IF \/ loop = "calib" /\ n.window # "calibration"
                             \/ loop = "timed" /\ n.window # "timed"
                          THEN @ + invoked ELSE @])

\* warm-up loop, lines 209-210: random.choice(tensor_list)
WarmupOp(r) ==
    /\ self[r].pc = "warm_op"
    /\ IF self[r].i < warm_iterations
       THEN \E slot \in 1..Len(self[r].tensor_list) :
              \E out \in Outcomes(self[r].tensor_list[slot]) :
                RunOperation(r, slot, out, "warm")
       ELSE /\ SetSelf(r, [self[r] EXCEPT !.pc = "calib_sync", !.i = 0])
            /\ UNCHANGED log
    /\ UNCHANGED env

\* start_time = time.perf_counter_ns(), line 215
CalibStart(r) ==
    /\ self[r].pc = "calib_start"
    /\ SetSelf(r, [self[r] EXCEPT !.pc = "calib_op", !.i = 0])
    /\ SetNow(r, [log[r].now EXCEPT !.window = "calibration"])
    /\ UNCHANGED env

\* calibration loop, lines 216-217: random.choice(tensor_list)
CalibOp(r) ==
    /\ self[r].pc = "calib_op"
    /\ IF self[r].i < test_iterations
       THEN \E slot \in 1..Len(self[r].tensor_list) :
              \E out \in Outcomes(self[r].tensor_list[slot]) :
                RunOperation(r, slot, out, "calib")
       ELSE /\ SetSelf(r, [self[r] EXCEPT !.pc = "calib_end_sync", !.i = 0])
            /\ UNCHANGED log
    /\ UNCHANGED env

\* lines 220-227: end_time, avg_op_duration and prefer_iterations; a window
\* of 0 ns makes max_total_duration / avg_op_duration raise ZeroDivisionError
CalibEnd(r) ==
    /\ self[r].pc = "calib_end"
    /\ \E elapsed \in CalibrationElapsed :
         /\ SetSelf(r, IF elapsed = 0
                       THEN Caught(self[r])
                       ELSE [self[r] EXCEPT
                               !.pc = "core_sync",
                               !.prefer_iterations =
                                   PreferIterations(elapsed, iterations)])
         /\ SetNow(r, [log[r].now EXCEPT !.window = "closed", !.avgMs = elapsed])
    /\ UNCHANGED env

\* core_perf, line 181: start_time = time.perf_counter_ns()
CoreStart(r) ==
    /\ self[r].pc = "core_start"
    /\ SetSelf(r, [self[r] EXCEPT !.pc = "core_op", !.i = 0])
    /\ log' = [log EXCEPT ![r].now.window = "timed",
                          ![r].readStart = @ \cup {self[r].call}]
    /\ UNCHANGED env

\* core_perf, lines 182-183: the timed loop
CoreOp(r) ==
    /\ self[r].pc = "core_op"
    /\ IF self[r].i < self[r].prefer_iterations
       THEN LET slot == CoreSlot(self[r].i, Len(self[r].tensor_list))
            IN  \E out \in Outcomes(self[r].tensor_list[slot]) :
                  RunOperation(r, slot, out, "timed")
       ELSE /\ SetSelf(r, [self[r] EXCEPT !.pc = "core_end_sync", !.i = 0])
            /\ UNCHANGED log
    /\ UNCHANGED env

\* core_perf, lines 186-188, and line 229: end_time, the division by
\* prefer_iterations (ZeroDivisionError when it is 0) and round(.., 2)
CoreEnd(r) ==
    /\ self[r].pc = "core_end"
    /\ \E elapsed \in TimedElapsed :
         SetSelf(r, IF self[r].prefer_iterations = 0
                    THEN Caught(self[r])
                    ELSE [self[r] EXCEPT
                            !.pc = "cleanup",
                            !.latency = Latency(elapsed, self[r].prefer_iterations)])
    /\ log' = [log EXCEPT ![r].now.window = "closed",
                          ![r].readEnd = @ \cup {self[r].call}]
    /\ UNCHANGED env

\* mutant: the release sits inside the try block, so a failed run skips it
CleanupOnSuccessOnly(r) ==
    /\ self[r].pc = "cleanup"
    /\ IF self[r].error = ""
       THEN /\ SetSelf(r, [self[r] EXCEPT !.pc = "report", !.tensor_list = <<>>,
                                          !.i = 0, !.max_data_cnt = 0])
            /\ SetNow(r, [log[r].now EXCEPT !.cleanups = @ + 1,
                                            !.emptyCaches = @ + 1])
       ELSE /\ SetSelf(r, [self[r] EXCEPT !.pc = "report"])
            /\ UNCHANGED log
    /\ UNCHANGED env

\* lines 240-241: del tensor_list; self.empty_cache()
Cleanup(r) ==
    /\ self[r].pc = "cleanup"
    /\ SetSelf(r, [self[r] EXCEPT !.pc = "report", !.tensor_list = <<>>,
                                  !.i = 0, !.max_data_cnt = 0])
    /\ SetNow(r, [log[r].now EXCEPT !.cleanups = @ + 1, !.emptyCaches = @ + 1])
    /\ UNCHANGED env

\* which dump_*_ops_report perf calls
ReportKind(op) == IF op \in ReportCommOps THEN "communication" ELSE "computation"

\* lines 245-265: build the report and return it
Report(r) ==
    /\ self[r].pc = "report"
    /\ SetSelf(r, [self[r] EXCEPT
            !.pc = "done",
            !.report = [kind |-> ReportKind(op_name), op_name |-> op_name,
                        latency |-> self[r].latency, error |-> self[r].error]])
    /\ SetNow(r, [log[r].now EXCEPT !.reports = @ + 1])
    /\ UNCHANGED env

Next ==
    \/ \E r \in Ranks : PerfBegin(r)
    \/ \E r \in Ranks : CreateTensors(r)
    \/ \E r \in Ranks : CheckPool(r)
    \/ \E r \in Ranks : device_synchronize(r)
    \/ \E r \in Ranks : WarmupOp(r)
    \/ \E r \in Ranks : CalibStart(r)
    \/ \E r \in Ranks : CalibOp(r)
    \/ \E r \in Ranks : CalibEnd(r)
    \/ \E r \in Ranks : CoreStart(r)
    \/ \E r \in Ranks : CoreOp(r)
    \/ \E r \in Ranks : CoreEnd(r)
    \/ \E r \in Ranks : Cleanup(r)
    \/ \E r \in Ranks : Report(r)
    \/ \E S \in SUBSET Ranks : barrier(S)

Spec == Init /\ [][Next]_vars

SpecRanks == InitRanks /\ [][Next]_vars

\* the steps a process takes on its own, everything but the barrier
RankStep(r) ==
    \/ PerfBegin(r)
    \/ CreateTensors(r)
    \/ CheckPool(r)
    \/ device_synchronize(r)
    \/ WarmupOp(r)
    \/ CalibStart(r)
    \/ CalibOp(r)
    \/ CalibEnd(r)
    \/ CoreStart(r)
    \/ CoreOp(r)
    \/ CoreEnd(r)
    \/ Cleanup(r)
    \/ Report(r)

\* one perf call per process; every process keeps running, every call it
\* makes returns or raises in finite time, and a barrier that every process
\* of the group has entered releases them
SpecOnce ==
    /\ InitOnce
    /\ [][Next]_vars
    /\ \A r \in 1..NumRanks : WF_vars(RankStep(r))
    /\ WF_vars(\E S \in SUBSET Ranks : barrier(S))

\* ---------------------------------------------------------- properties
Returned(r) == self[r].pc = "done"
TensorSizeOf(r) == TensorSize(cases[self[r].call])
AvailOf(r) == AssumeAvailBytes(memory_limit[r])
Invoked(r) == log[r].now.warmOps + log[r].now.calibOps + log[r].now.timedOps

\* C1: a perf call whose tensor_size exceeds assume_avail_bytes returns a
\* report with latency 0 and error "OOM" and has not invoked the operator
\* (stated for the calls in which no collaborator raised, where nothing but
\* the provisioning decides the outcome).
C1_OomReportWithoutInvocation ==
    \A r \in Ranks :
        (Returned(r) /\ TensorSizeOf(r) > AvailOf(r) /\ log[r].now.faults = 0)
            => /\ self[r].report.latency = 0
               /\ self[r].report.error = "OOM"
               /\ Invoked(r) = 0

\* C2: no perf call ends by an exception leaving perf; every call that ends
\* returns a report whose error is "", "OOM" or "RUN_OP_ERROR".
C2_PerfNeverRaises ==
    \A r \in Ranks :
        /\ self[r].pc # "raised"
        /\ Returned(r) => self[r].report.error \in {"", "OOM", "RUN_OP_ERROR"}

\* C3: when the pool is non-empty and no operator invocation returns (the
\* operator raises on every call), perf returns latency 0 and error
\* "RUN_OP_ERROR", has dropped the pool and called empty_cache, and has not
\* entered core_perf.
C3_RunOpErrorReleasesPool ==
    \A r \in Ranks :
        (Returned(r) /\ log[r].now.poolSize > 0 /\ log[r].now.okCalls = 0)
            => /\ self[r].report.latency = 0
               /\ self[r].report.error = "RUN_OP_ERROR"
               /\ self[r].tensor_list = <<>>
               /\ log[r].now.emptyCaches = 1
               /\ log[r].now.coreCalls = 0

\* C3 witness: a returned call whose first warm-up invocation raised.
C3_Witness ==
    \E r \in Ranks :
        /\ Returned(r)
        /\ log[r].now.poolSize > 0
        /\ log[r].now.warmOps = 1
        /\ log[r].now.okCalls = 0
        /\ self[r].report.error = "RUN_OP_ERROR"

\* C4: every perf call that has ended has run the cleanup exactly once and
\* produced exactly one report.
C4_CleanupOnceAndOneReport ==
    \A r \in Ranks :
        self[r].pc \in {"done", "raised"}
            => log[r].now.cleanups = 1 /\ log[r].now.reports = 1

\* C4, for the calls that return: the cleanup has run exactly once, with
\* the call past its last operator invocation, before the one report.
C4_ReturnedCallsCleanedOnce ==
    \A r \in Ranks :
        /\ log[r].now.cleanups >= 1 => self[r].pc \in {"report", "done"}
        /\ self[r].pc \in {"report", "done"}
              => log[r].now.cleanups = 1 /\ log[r].now.emptyCaches = 1
        /\ log[r].now.reports = (IF self[r].pc = "done" THEN 1 ELSE 0)

\* C5: a start timestamp is read only right after device_synchronize then
\* barrier with no operator invocation since; an end timestamp is read only
\* after a device_synchronize then barrier that follow the last invocation;
\* and every invocation of a timed loop falls inside its open window.
C5_WindowFenced ==
    \A r \in Ranks :
        /\ self[r].pc \in {"calib_start", "core_start"} => log[r].now.fence = 2
        /\ self[r].pc \in {"calib_end", "core_end"} => log[r].now.fence = 2
        /\ self[r].pc = "calib_end"
              => log[r].now.window = "calibration"
                   /\ log[r].now.calibOps = test_iterations
        /\ self[r].pc = "core_end" => log[r].now.window = "timed"
        /\ log[r].now.outside = 0

\* C5 witness: the end timestamp of a timed pass with invocations is about
\* to be read.
C5_Witness ==
    \E r \in Ranks :
        /\ self[r].pc = "core_end"
        /\ log[r].now.timedOps >= 2
        /\ log[r].now.fence = 2

\* C6: no rank has read the start timestamp of the timed pass of a perf
\* call before every rank arrived at the barrier before the timed loop of
\* that call, nor its end timestamp before every rank arrived at the
\* barrier after the timed loop of that call.
C6_TimedWindowLockstep ==
    \A r \in Ranks : \A q \in Ranks :
        /\ log[r].readStart \subseteq log[q].timedFrom
        /\ log[r].readEnd \subseteq log[q].timedTo

\* C7: in core_perf over a pool of k slots the slots selected are 1, 2, ..,
\* k, 1, 2, .. in this order (slot i mod k for the i-th call, counted from
\* 0), at most prefer_iterations of them, and once the loop has ended the
\* operator has been invoked exactly prefer_iterations times.
C7_TimedLoopCyclesPool ==
    \A r \in Ranks :
        LET s == log[r].now.timedSlots
            k == log[r].now.poolSize
            n == log[r].now.coreN
        IN  /\ Len(s) <= n
            /\ Len(s) >= 1 => s[1] = 1
            /\ \A j \in 1..(Len(s) - 1) :
                  s[j + 1] = IF s[j] = k THEN 1 ELSE s[j] + 1
            /\ self[r].pc \in {"core_end_sync", "core_end_barrier", "core_end"}
                  => /\ n = self[r].prefer_iterations
                     /\ Len(s) = n
                     /\ log[r].now.timedOps = n

\* C7 witness: a finished timed loop of 3 calls over a pool of 2 slots.
C7_Witness ==
    \E r \in Ranks :
        /\ self[r].pc = "core_end"
        /\ log[r].now.poolSize = 2
        /\ log[r].now.timedSlots = <<1, 2, 1>>

\* the final branch of the provisioning policy
FinalBranch(r) ==
    /\ self[r].pc = "check_pool"
    /\ op_name \notin {"allreduce", "allgather", "reducescatter", "alltoall",
                       "broadcast", "p2p", "device2host", "host2device",
                       "hash_table"}
    /\ TensorSizeOf(r) >= 1
    /\ 2 * TensorSizeOf(r) <= AvailOf(r)
    /\ TensorSizeOf(r) <= 10

\* k = min(floor(avail / tensor_size), iters), stated by its bounds
IsMinFloor(k, avail, tensor_size, iters) ==
    /\ k <= iters
    /\ k * tensor_size <= avail
    /\ k = iters \/ (k + 1) * tensor_size > avail

\* C8 as claimed: in the final branch the pool returned by build_tensor has
\* min(floor(assume_avail_bytes / tensor_size), requested_iterations)
\* tensor-sets, and at least 1.
C8_PoolSizeAtLeastOne ==
    \A r \in Ranks :
        FinalBranch(r)
            => /\ IsMinFloor(Len(self[r].tensor_list), AvailOf(r),
                             TensorSizeOf(r), iterations)
               /\ Len(self[r].tensor_list) >= 1

\* C8 as amended: for requested_iterations >= 0 the pool has
\* min(floor(assume_avail_bytes / tensor_size), requested_iterations)
\* tensor-sets, each from its own constructor call; it has at least 1
\* whenever requested_iterations >= 1 and is empty when it is 0.
C8_PoolSizeMinFloor ==
    \A r \in Ranks :
        FinalBranch(r)
            => /\ IsMinFloor(Len(self[r].tensor_list), AvailOf(r),
                             TensorSizeOf(r), iterations)
               /\ log[r].now.created = Len(self[r].tensor_list)
               /\ iterations >= 1 => Len(self[r].tensor_list) >= 1
               /\ iterations = 0 => Len(self[r].tensor_list) = 0

\* C8 witness: a pool of 2 limited by memory (9 / 4), not by the 3 requested
\* iterations.
C8_Witness ==
    \E r \in Ranks :
        /\ FinalBranch(r)
        /\ iterations = 3
        /\ TensorSizeOf(r) = 4
        /\ AvailOf(r) = 9
        /\ Len(self[r].tensor_list) = 2

\* C9: for each of the nine communication-class names build_tensor returns
\* an empty pool when tensor_size > assume_avail_bytes and a pool of exactly
\* 1 otherwise, and never makes a second constructor call.
C9_CommPoolAtMostOne ==
    \A r \in Ranks :
        op_name \in {"allreduce", "allgather", "reducescatter", "alltoall",
                     "broadcast", "p2p", "device2host", "host2device",
                     "hash_table"}
            => /\ log[r].now.created <= 1
               /\ self[r].pc = "check_pool"
                    => Len(self[r].tensor_list) =
                         (IF TensorSizeOf(r) > AvailOf(r) THEN 0 ELSE 1)

\* C9 witness: hash_table with room for many tensor-sets gets a pool of 1.
C9_Witness ==
    \E r \in Ranks :
        /\ self[r].pc = "check_pool"
        /\ op_name = "hash_table"
        /\ iterations = 3
        /\ TensorSizeOf(r) = 1
        /\ AvailOf(r) = 27
        /\ Len(self[r].tensor_list) = 1

\* C10: the count handed to core_perf after a calibration window of e ms
\* (avg_op_duration = e / 5000 s) is 2 when e > 50000 and otherwise
\* min(ceil(50000 / e), requested_iterations); 5 ms with 100000 requested
\* iterations gives 10000, and 100000 ms gives 2.
C10_PreferIterations ==
    /\ \A r \in Ranks :
         log[r].now.coreCalls = 1 =>
            LET e == log[r].now.avgMs
                p == log[r].now.coreN
            IN  /\ e > 0
                /\ e > 50000 => p = 2
                /\ e <= 50000 =>
                     /\ p <= iterations
                     /\ (p - 1) * e < 50000
                     /\ p = iterations \/ p * e >= 50000
    /\ PreferIterations(5, 100000) = 10000
    /\ \A n \in {1, 2, 100000} : PreferIterations(100000, n) = 2

\* C10 witness: core_perf entered with ceil(50000 / 20000) = 3 iterations.
C10_Witness ==
    \E r \in Ranks :
        /\ self[r].pc = "core_barrier"
        /\ log[r].now.avgMs = 20000
        /\ iterations = 3
        /\ log[r].now.coreN = 3

\* C11: the provisioning policy build_tensor applied is the communication
\* policy exactly when the report is emitted through the communication-ops
\* branch.
C11_NameSetsInSync ==
    \A r \in Ranks :
        Returned(r)
            => (log[r].now.policy = "communication"
                  <=> self[r].report.kind = "communication")

\* a computation-class operator whose build_tensor has returned
ComputeReturned(r) ==
    /\ self[r].pc = "check_pool"
    /\ op_name \notin {"allreduce", "allgather", "reducescatter", "alltoall",
                       "broadcast", "p2p", "device2host", "host2device",
                       "hash_table"}

\* C12: for a computation-class operator with tensor_size <=
\* assume_avail_bytes the pool has exactly 1 tensor-set when 2 * tensor_size
\* > assume_avail_bytes, and otherwise exactly 2 when tensor_size > 1 GiB,
\* whatever the requested iterations; each slot comes from its own
\* constructor call.
C12_OneOrTwoInstances ==
    \A r \in Ranks :
        (ComputeReturned(r) /\ TensorSizeOf(r) <= AvailOf(r))
            => /\ 2 * TensorSizeOf(r) > AvailOf(r)
                    => /\ Len(self[r].tensor_list) = 1
                       /\ log[r].now.created = 1
               /\ (2 * TensorSizeOf(r) <= AvailOf(r) /\ TensorSizeOf(r) > 10)
                    => /\ Len(self[r].tensor_list) = 2
                       /\ log[r].now.created = 2

\* C12 witness: two instances of a tensor above 1 GiB although no iteration
\* is requested.
C12_Witness ==
    \E r \in Ranks :
        /\ ComputeReturned(r)
        /\ iterations = 0
        /\ TensorSizeOf(r) = 11
        /\ AvailOf(r) = 27
        /\ Len(self[r].tensor_list) = 2

\* C13 as stated: in every perf call that reaches core_perf, prefer_iterations
\* is at most the requested iterations, for every calibration measurement.
C13_NeverExceedsRequested ==
    \A r \in Ranks :
        log[r].now.coreCalls = 1 => log[r].now.coreN <= iterations

\* C13 amended: prefer_iterations is at most the requested iterations
\* whenever the calibration average is within the 10 s budget; above the
\* budget it is 2 whatever was requested.
C13_CappedWithinBudget ==
    \A r \in Ranks :
        log[r].now.coreCalls = 1 =>
            /\ log[r].now.avgMs <= 50000 => log[r].now.coreN <= iterations
            /\ log[r].now.avgMs > 50000 => log[r].now.coreN = 2

\* C13 witness: a 20 s average with one requested iteration runs two.
C13_Witness ==
    \E r \in Ranks :
        /\ log[r].now.coreCalls = 1
        /\ log[r].now.avgMs = 100000
        /\ iterations = 1
        /\ log[r].now.coreN = 2

\* a perf call that is past its pool check and found the pool empty
EmptyPoolCall(r) ==
    /\ self[r].pc \notin {"idle", "create_tensors", "check_pool", "raised"}
    /\ log[r].now.poolSize = 0

\* C14: with an empty pool perf makes no device_synchronize call, no barrier
\* call and no operator invocation, sets latency 0 and error "OOM", and goes
\* straight to cleanup and the report.
C14_EmptyPoolSkipsMeasurement ==
    \A r \in Ranks :
        EmptyPoolCall(r)
            => /\ log[r].now.syncs = 0
               /\ log[r].now.barriers = 0
               /\ Invoked(r) = 0
               /\ log[r].now.coreCalls = 0
               /\ self[r].latency = 0
               /\ self[r].error = "OOM"
               /\ self[r].pc \in {"cleanup", "report", "done"}
               /\ Returned(r)
                    => /\ log[r].now.cleanups = 1
                       /\ log[r].now.reports = 1
                       /\ self[r].report.latency = 0
                       /\ self[r].report.error = "OOM"

\* C14 witness: a returned perf call whose pool was empty.
C14_Witness ==
    \E r \in Ranks :
        /\ Returned(r)
        /\ log[r].now.poolSize = 0
        /\ log[r].now.created = 0
        /\ self[r].report.error = "OOM"

\* a returned perf call with a non-empty pool in which no call made by perf
\* raised
QuietCall(r) ==
    /\ Returned(r)
    /\ log[r].now.poolSize > 0
    /\ log[r].now.faults = 0
    /\ log[r].now.unpackErrors = 0

\* C15: in every perf call with a non-empty pool in which no call raises the
\* operator is invoked exactly 5 times in warm-up, 5 times in calibration
\* and prefer_iterations times in the timed pass, 10 + prefer_iterations in
\* all, on slots of the pool.
C15_InvocationCounts ==
    \A r \in Ranks :
        QuietCall(r)
            => /\ log[r].now.warmOps = 5
               /\ log[r].now.calibOps = 5
               /\ log[r].now.timedOps = self[r].prefer_iterations
               /\ Invoked(r) = 10 + self[r].prefer_iterations
               /\ log[r].now.lastSlot \in 1..log[r].now.poolSize

\* C15, the part that holds: warm-up is complete, and preceded by one
\* synchronize and barrier, when the calibration start is read; a call
\* that reports success made 5 + 5 + prefer_iterations invocations; every
\* slot used belongs to the pool.
C15_CountsOfSuccessfulCalls ==
    \A r \in Ranks :
        /\ log[r].now.window = "calibration" => log[r].now.warmOps = 5
        /\ self[r].pc = "calib_op"
             => /\ log[r].now.warmOps = 5
                /\ log[r].now.calibOps = self[r].i
                /\ log[r].now.syncs = 2
                /\ log[r].now.barriers = 2
        /\ self[r].pc = "warm_op" /\ self[r].i = 0
             => log[r].now.syncs = 1 /\ log[r].now.barriers = 1
        /\ Invoked(r) > 0 => log[r].now.lastSlot \in 1..log[r].now.poolSize
        /\ (Returned(r) /\ self[r].report.error = "")
             => /\ log[r].now.warmOps = 5
                /\ log[r].now.calibOps = 5
                /\ log[r].now.timedOps = self[r].prefer_iterations
                /\ Invoked(r) = 10 + self[r].prefer_iterations

\* the number of tensor-sets a pool holds
TensorSets(list) == Cardinality({k \in 1..Len(list) : list[k] = "tensors"})

\* C16: for tensor_size >= 1 the footprint of the pool build_tensor
\* allocates is within the budget: pool_size * tensor_size <=
\* assume_avail_bytes, for every operator class, memory_limit and requested
\* iterations.
C16_PoolWithinBudget ==
    \A r \in Ranks :
        (self[r].pc # "idle" /\ TensorSizeOf(r) >= 1)
            => /\ self[r].max_data_cnt * TensorSizeOf(r) <= AvailOf(r)
               /\ log[r].now.created * TensorSizeOf(r) <= AvailOf(r)
               /\ TensorSets(self[r].tensor_list) * TensorSizeOf(r) <= AvailOf(r)

\* C16 witness: two tensor-sets of 0.4 GiB in a budget of 0.9 GiB.
C16_Witness ==
    \E r \in Ranks :
        /\ self[r].pc = "check_pool"
        /\ TensorSizeOf(r) = 4
        /\ AvailOf(r) = 9
        /\ log[r].now.created = 2
        /\ TensorSets(self[r].tensor_list) = 2

\* C17: whenever the pool is non-empty, requested_iterations >= 1 and every
\* operator invocation, device_synchronize and barrier returns without
\* raising, perf reports success (error ""), for every pair of clock
\* readings of the calibration window, a window of 0 ns included.
C17_SuccessWhenNothingFails ==
    \A r \in Ranks :
        (QuietCall(r) /\ iterations >= 1
           /\ log[r].now.created = log[r].now.poolSize)
            => self[r].report.error = ""

\* C18: whenever perf enters the timed pass, prefer_iterations >= 1, for
\* every operator class and every requested iteration count >= 0 with a
\* non-empty pool.
C18_TimedPassHasIterations ==
    \A r \in Ranks :
        (/\ log[r].now.coreCalls = 1
         /\ iterations >= 0
         /\ log[r].now.poolSize > 0
         /\ log[r].now.created = log[r].now.poolSize
         /\ log[r].now.faults = 0)
            => log[r].now.coreN >= 1

\* C19: ranks that call perf with the same workload execute the same number
\* of timed invocations, the same prefer_iterations.
C19_SamePreferIterations ==
    \A r \in Ranks : \A q \in Ranks :
        (/\ self[r].call = self[q].call
         /\ Returned(r) /\ self[r].report.error = ""
         /\ Returned(q) /\ self[q].report.error = "")
            => /\ self[r].prefer_iterations = self[q].prefer_iterations
               /\ log[r].now.timedOps = log[q].now.timedOps

\* every rank's perf call has returned its report
AllReturned == \A r \in Ranks : Returned(r)

\* C20: when every rank calls perf once with the same workload, every
\* rank's call eventually terminates with a report, whatever the per-rank
\* outcomes: as long as some rank has not returned, some step is possible.
C20_NoRankHangs ==
    (\A r \in Ranks : self[r].pc # "raised") => (AllReturned \/ ENABLED Next)

\* C20 as a temporal property of the fair specification
C20_EventuallyAllReturned == <>(\A r \in 1..NumRanks : self[r].pc = "done")

\* C20, the part that holds: no rank is stuck unless some rank has left the
\* measurement early (OOM, RUN_OP_ERROR or an escaped exception).
C20_HangNeedsAnEarlyExit ==
    (\A r \in Ranks : self[r].error = "" /\ self[r].pc # "raised")
        => (AllReturned \/ ENABLED Next)

====
